---------------------------- MODULE Spec2Model ----------------------------
(***************************************************************************)
(* A model of the scripting-system archiving job (src/main.py and the      *)
(* classes of src/source/): main() fetches a zip bundle, extracts one SQL   *)
(* dump, compares it with the retained copy prev_dump.sql, and, when it     *)
(* has changed, packs it into <date>.tgz, uploads it to an SMB share,       *)
(* checks that it arrived, sweeps the share of old archives, and reports.   *)
(*                                                                         *)
(* The working directory, the share and the clock persist from one run of   *)
(* main() to the next; everything else is rebuilt by each run.  Library     *)
(* calls (requests, zipfile, tarfile, pysmb, the clock) are the model's     *)
(* environment: each action draws the outcome of the calls it makes from    *)
(* the outcomes those libraries can produce.                                *)
(***************************************************************************)
EXTENDS Integers, Sequences, FiniteSets, TLC

VARIABLES
    pc,          \* position of the run inside main()
    runs,        \* number of runs of main() started so far
    ticks,       \* number of midnights passed so far
    today,       \* the calendar date the clock shows
    sql,         \* working directory: the extracted dump (name_sql_file)
    prev,        \* working directory: the retained copy (prev_dump.sql)
    tgz,         \* working directory: the names of the archive files
    remote,      \* the listing of the share directory
    name_tgz,    \* Zip.name_tgz, which is also SMBServer.file
    samba,       \* SMBServer.samba, the session handle
    events,      \* what Log.info/warning/error recorded in this run
    calls,       \* the methods main() has called in this run, in order
    exc,         \* the exception that escaped main(), "" if none
    reports,     \* times Log.send_notification_email ran in this run
    changed,     \* what check_file_version returned in this run
    atStart,     \* the retained copy as the run found it
    atCheck,     \* the two files as check_file_version found them
    present,     \* what check_file returned in this run
    sweep,       \* what check_server found and did in this run
    save_days,   \* SMBServer.save_days, read from config_file.json
    faults,      \* library calls that have failed so far
    conn,        \* what samba.connect did in this run
    config,      \* config_file.json: well-formed, or which field is blank
    arg,         \* the arguments of a function applied on its own
    res          \* what that function has returned so far

vars == <<pc, runs, ticks, today, sql, prev, tgz, remote, name_tgz, samba, events, calls, exc,
          reports, changed, atStart, atCheck, present, sweep, save_days, faults, conn,
          config, arg, res>>

-----------------------------------------------------------------------------
(* Bounds of the model. *)

\* runs of main() in one behaviour
MaxRuns == 2
\* largest value of a byte of a file
MaxByte == 1
\* midnights that pass in one behaviour
MaxTicks == 1
\* library calls (HTTP, zip, tar, SMB) that fail in one behaviour
MaxFaults == 1
\* calls a caller makes on one SMBServer object
MaxCalls == 3
\* days before the first run on which an archive may have been named
MaxDays == 6
\* events the stages of a run log on one Log object
MaxEvents == 2
\* bytes of a file hashed on its own
MaxLen == 4
\* largest chunk size of a read loop run on its own
MaxChunk == 2

(* Program constants. *)

\* the chunk size of the two read loops of check_file_version
ChunkSize == 65536

-----------------------------------------------------------------------------
(* Files of the working directory. *)

Bytes == 0 .. MaxByte

\* the contents a file may have: nothing, or one byte
FileContents == {<<>>} \cup {<<b>> : b \in Bytes}

NoFile == [exists |-> FALSE, bytes |-> <<>>]
File(b) == [exists |-> TRUE, bytes |-> b]


-----------------------------------------------------------------------------
(* The fingerprint of check_file_version: the file is read in chunks of    *)
(* `size` bytes until a read returns nothing, and every chunk is fed to     *)
(* the SHA-1 object.  SHA-1 is modelled collision-free: the digest is an    *)
(* injective numbering of the bytes fed so far.                             *)

\* hashlib.sha1(): the digest object before any update
Sha1New == 0

\* sha1.update(chunk), one byte after the other
RECURSIVE Sha1Update(_, _)
Sha1Update(h, chunk) ==
    IF chunk = <<>> THEN h
    ELSE Sha1Update(h * (Cardinality(Bytes) + 1) + Head(chunk) + 1, Tail(chunk))

\* a read that returns full chunks only, and nothing for a shorter rest
ReadChunkFullOnly(bytes, pos, size) ==
    IF pos + size <= Len(bytes) THEN SubSeq(bytes, pos + 1, pos + size) ELSE <<>>

\* file.read(size) at offset `pos`: at most `size` bytes, <<>> at end of file
ReadChunk(bytes, pos, size) ==
    SubSeq(bytes, pos + 1, IF pos + size < Len(bytes) THEN pos + size ELSE Len(bytes))

\* the loop "while True: data = f.read(size); if not data: break; update(data)"
RECURSIVE HashLoop(_, _, _, _)
HashLoop(bytes, pos, size, h) ==
    LET data == ReadChunk(bytes, pos, size)
    IN  IF data = <<>> THEN h
        ELSE HashLoop(bytes, pos + Len(data), size, Sha1Update(h, data))

\* a weaker fingerprint, which tells files apart by their length only: with it
\* two dumps of the same length pass for the same dump
FingerprintSizeOnly(bytes) == Len(bytes)

\* sha1.hexdigest() of a file read by the loop
Fingerprint(bytes) == HashLoop(bytes, 0, ChunkSize, Sha1New)

-----------------------------------------------------------------------------
(* Calendar dates, as datetime.date: a year, a month and a day, ordered    *)
(* chronologically.                                                         *)

Date(y, m, d) == [y |-> y, m |-> m, d |-> d]

IsLeap(y) == (y % 4 = 0 /\ y % 100 # 0) \/ y % 400 = 0

DaysInMonth(y, m) ==
    IF m = 2 THEN (IF IsLeap(y) THEN 29 ELSE 28)
    ELSE IF m \in {4, 6, 9, 11} THEN 30 ELSE 31

\* date1 < date2
DateLess(a, b) ==
    \/ a.y < b.y
    \/ a.y = b.y /\ a.m < b.m
    \/ a.y = b.y /\ a.m = b.m /\ a.d < b.d

PrevDay(t) ==
    IF t.d > 1 THEN Date(t.y, t.m, t.d - 1)
    ELSE IF t.m > 1 THEN Date(t.y, t.m - 1, DaysInMonth(t.y, t.m - 1))
    ELSE Date(t.y - 1, 12, 31)

NextDay(t) ==
    IF t.d < DaysInMonth(t.y, t.m) THEN Date(t.y, t.m, t.d + 1)
    ELSE IF t.m < 12 THEN Date(t.y, t.m + 1, 1)
    ELSE Date(t.y + 1, 1, 1)

\* date - datetime.timedelta(days=n), n >= 0
RECURSIVE MinusDays(_, _)
MinusDays(t, n) == IF n = 0 THEN t ELSE MinusDays(PrevDay(t), n - 1)

-----------------------------------------------------------------------------
(* File names.  A name is its stem, a string of decimal digits kept as     *)
(* the sequence of its digits, and whether ".tgz" follows.  The names of    *)
(* the model are those with a stem of eight digits (what strftime writes)   *)
(* and those with a stem too short to be read as a date.                    *)

Name(stem, ext) == [stem |-> stem, ext |-> ext]

\* a number as n zero-padded decimal digits
RECURSIVE Digits(_, _)
Digits(v, n) == IF n = 0 THEN <<>> ELSE Append(Digits(v \div 10, n - 1), v % 10)

\* the number a string of digits writes
RECURSIVE Number(_)
Number(ds) ==
    IF ds = <<>> THEN 0
    ELSE Number(SubSeq(ds, 1, Len(ds) - 1)) * 10 + ds[Len(ds)]

\* a format without the day: '%Y%m'
StrftimeNoDay(t) == Digits(t.y, 4) \o Digits(t.m, 2)

\* date.strftime('%Y%d%m'): year, then DAY, then month
Strftime(t) == Digits(t.y, 4) \o Digits(t.d, 2) \o Digits(t.m, 2)

\* datetime.strptime(s, "%Y%d%m").date(): the date, or ValueError.  A string of
\* eight digits reads as a year of four, a day of two and a month of two, and
\* is a date when that day exists; a string of fewer than six digits is none.
\* (Strings of six or seven digits, which strptime may read with a day or a
\* month of one digit, are not among the names of the model.)
Strptime(ds) ==
    IF Len(ds) # 8 THEN [ok |-> FALSE, date |-> Date(0, 0, 0)]
    ELSE LET y == Number(SubSeq(ds, 1, 4))
             d == Number(SubSeq(ds, 5, 6))
             m == Number(SubSeq(ds, 7, 8))
         IN  IF y >= 1 /\ m \in 1 .. 12 /\ d >= 1 /\ d <= DaysInMonth(y, m)
             THEN [ok |-> TRUE, date |-> Date(y, m, d)]
             ELSE [ok |-> FALSE, date |-> Date(0, 0, 0)]

\* f.filename.replace(".tgz", ""), then strptime
ParseName(name) == Strptime(name.stem)

\* Zip.__init__: datetime.today().strftime('%Y%d%m') + ".tgz"
ArchiveName(t) == Name(Strftime(t), TRUE)

-----------------------------------------------------------------------------
(* The share directory: the entries smb.listPath returns, in the server's  *)
(* order.  No two entries have the same name.                               *)

Entry(name, isDir) == [filename |-> name, isDirectory |-> isDir]

\* the date of the first run
StartDate == Date(2024, 3, 5)

\* an archive uploaded n days before StartDate
Old(n) == Entry(ArchiveName(MinusDays(StartDate, n)), FALSE)
\* a directory of the share, and one whose name reads as an old date
Dot == Entry(Name(<<>>, FALSE), TRUE)
OldDir == Entry(Name(Strftime(MinusDays(StartDate, 10)), FALSE), TRUE)
\* a file whose name is no date
Stray == Entry(Name(<<9, 9>>, TRUE), FALSE)

\* the listings the share may hold before the first run
InitialListings ==
    { <<>>,
      <<Dot, Old(10), Old(5), Old(2)>>,
      <<Old(7), OldDir, Old(8)>>,
      <<Stray, Old(10)>>,
      <<Old(10), Stray, Old(8)>> }

\* the values of "save_days" in config_file.json
SaveDaysChoices == {0, 7}

Names(list) == {list[i].filename : i \in 1 .. Len(list)}

\* the listing without its entries named n
RECURSIVE Without(_, _)
Without(list, n) ==
    IF list = <<>> THEN <<>>
    ELSE IF Head(list).filename = n THEN Without(Tail(list), n)
    ELSE <<Head(list)>> \o Without(Tail(list), n)

\* a storeFile that leaves the share as it was
StoreNothing(list, e) == list

\* smb.storeFile: the entry replaces the one of its name, or is added
Store(list, e) ==
    IF e.filename \in Names(list)
    THEN [i \in 1 .. Len(list) |-> IF list[i].filename = e.filename THEN e ELSE list[i]]
    ELSE Append(list, e)

-----------------------------------------------------------------------------
(* The event log of a run. *)

Ev(sev, stage, n) == [sev |-> sev, stage |-> stage, n |-> n]
Info(stage) == Ev("INFO", stage, 0)
Warning(stage) == Ev("WARNING", stage, 0)
Error(stage) == Ev("ERROR", stage, 0)

HasError(evs, stage) == \E i \in 1 .. Len(evs) : evs[i] = Error(stage)
Called(m) == \E i \in 1 .. Len(calls) : calls[i] = m

NoSweep ==
    [status |-> "uncalled", before |-> <<>>, deleted |-> {}, nb |-> 0,
     now |-> Date(0, 0, 0)]
NoCheck == [prev |-> NoFile, sql |-> NoFile]

\* a library call that fails uses up one of the failures of the behaviour
Fault(outcome) == IF outcome = "ok" THEN 0 ELSE 1

TypeOK ==
    /\ pc \in {"idle", "get_config", "download", "smb_init", "check_version", "compress",
               "connect", "send_file", "check_file", "check_server", "disconnect",
               "report", "clean", "done", "crashed", "api", "naming", "hashing",
               "log_new", "logging", "log_sent"}
    /\ runs \in 0 .. MaxRuns
    /\ ticks \in 0 .. MaxTicks
    /\ faults \in 0 .. MaxFaults
    /\ sql.bytes \in FileContents /\ prev.bytes \in FileContents
    /\ samba \in {"unset", "None", "open", "closed", "unauth"}
    /\ changed \in {"unset", "true", "false"}
    /\ present \in {"uncalled", "true", "false", "none"}
    /\ reports \in 0 .. 1

-----------------------------------------------------------------------------
\* what config_file.json may be: well-formed, or with one required field left
\* blank ("" for "url-zip", for "file", or for a field of "smb" such as "user")
ConfigChoices == {"ok", "blank_url", "blank_file", "blank_user"}

\* the state before the first run, with config_file.json one of cfgs
Start(cfgs) ==
    /\ config \in cfgs
    /\ arg = <<>>
    /\ res = <<>>
    /\ pc = "idle"
    /\ runs = 0
    /\ ticks = 0
    /\ faults = 0
    /\ today = StartDate
    /\ sql = NoFile
    /\ prev = NoFile
    /\ tgz = {}
    /\ remote \in InitialListings
    /\ save_days \in SaveDaysChoices
    /\ name_tgz = Name(<<>>, FALSE)
    /\ samba = "unset"
    /\ events = <<>>
    /\ calls = <<>>
    /\ exc = ""
    /\ reports = 0
    /\ changed = "unset"
    /\ atStart = NoFile
    /\ atCheck = NoCheck
    /\ present = "uncalled"
    /\ sweep = NoSweep
    /\ conn = "uncalled"

\* the job with a well-formed config_file.json
Init == Start({"ok"})

\* the job with any config_file.json
ConfigInit == Start(ConfigChoices)

-----------------------------------------------------------------------------
(* The clock.  Midnight may pass at any moment, also in the middle of a    *)
(* run.  A run reads the clock twice, in Zip.__init__ and in check_server,  *)
(* so a midnight matters only by the reads it falls between: the model      *)
(* lets it pass just before either read.                                    *)

Tick ==
    /\ pc \in {"idle", "done", "crashed", "check_server"}
    /\ ticks < MaxTicks
    /\ ticks' = ticks + 1
    /\ today' = NextDay(today)
    /\ UNCHANGED <<pc, runs, sql, prev, tgz, remote, name_tgz, samba, events, calls, exc,
                   reports, changed, atStart, atCheck, present, sweep, save_days, faults, conn,
                   config, arg, res>>

-----------------------------------------------------------------------------
(* main(), one action per statement.  An exception no handler of main()    *)
(* catches ends the run at "crashed".                                       *)

\* main: script = Zip(...), a new run of the job
ZipInit ==
    /\ pc \in {"idle", "done", "crashed"}
    /\ runs < MaxRuns
    /\ runs' = runs + 1
    /\ name_tgz' = ArchiveName(today)
    /\ samba' = "unset"
    /\ events' = <<>>
    /\ calls' = <<>>
    /\ exc' = ""
    /\ reports' = 0
    /\ changed' = "unset"
    /\ atStart' = prev
    /\ atCheck' = NoCheck
    /\ present' = "uncalled"
    /\ sweep' = NoSweep
    /\ conn' = "uncalled"
    /\ pc' = "get_config"
    /\ UNCHANGED <<ticks, today, sql, prev, tgz, remote, save_days, faults, config, arg, res>>

\* get_config: the events it logs into the Log it has just built, one for a
\* blank "url-zip" and one for a blank "file"
GetConfigEvents(cfg) ==
    IF cfg \in {"blank_url", "blank_file"} THEN <<Error("JSON file read")>> ELSE <<>>

\* main: script.get_config()
GetConfig ==
    /\ pc = "get_config"
    /\ calls' = Append(calls, "get_config")
    /\ events' = GetConfigEvents(config)
    /\ pc' = "download"
    /\ UNCHANGED <<runs, ticks, today, sql, prev, tgz, remote, name_tgz, samba, exc,
                   reports, changed, atStart, atCheck, present, sweep, save_days, faults, conn,
                   config, arg, res>>

\* what requests.get, ZipFile(...) and zfile.extract can do
FetchOutcomes ==
    {"ok", "request_failed", "missing_member", "bad_zip_member", "bad_zip_data",
     "extract_error"}

\* download_unzip: the events it logs
DownloadEvents(outcome) ==
    CASE outcome = "ok" -> <<Info("SQL File in Zip"), Info("SQL File Downloaded")>>
      [] outcome \in {"bad_zip_member", "bad_zip_data"} ->
             <<Info("SQL File in Zip"), Error("SQL File Downloaded")>>
      [] outcome = "extract_error" -> <<Info("SQL File in Zip"), Error("Request ZIP")>>
      [] outcome = "missing_member" -> <<Error("SQL File in Zip")>>
      [] OTHER -> <<Error("Request ZIP")>>

\* download_unzip: the dump file it leaves.  zfile.extract opens the target for
\* writing and copies the member into it: a failure while copying leaves what
\* was written, a failure before the target is opened leaves the directory as
\* it was.
DownloadFile(outcome, old, bytes) ==
    IF outcome \in {"ok", "bad_zip_data", "extract_error"} THEN File(bytes) ELSE old

\* download_unzip: whether requests.get(url) goes to the network.  get_config
\* turns a blank "url-zip" into ".zip", a URL without a scheme, which requests
\* refuses (MissingSchema) before it sends anything.
HttpGet(cfg) == cfg # "blank_url"

\* download_unzip: what it can come to with this configuration
DownloadOutcomes(cfg) == IF HttpGet(cfg) THEN FetchOutcomes ELSE {"request_failed"}

\* a refused URL is no failure of the network
DownloadFault(outcome, cfg) == IF HttpGet(cfg) THEN Fault(outcome) ELSE 0

\* main: script.download_unzip()
DownloadUnzip ==
    /\ pc = "download"
    /\ \E outcome \in DownloadOutcomes(config), bytes \in FileContents :
          /\ faults + DownloadFault(outcome, config) <= MaxFaults
          /\ faults' = faults + DownloadFault(outcome, config)
          /\ events' = events \o DownloadEvents(outcome)
          /\ sql' = DownloadFile(outcome, sql, bytes)
    /\ calls' = Append(calls, "download_unzip")
    /\ pc' = "smb_init"
    /\ UNCHANGED <<runs, ticks, today, prev, tgz, remote, name_tgz, samba, exc, reports,
                   changed, atStart, atCheck, present, sweep, save_days, conn, config,
                   arg, res>>

\* SMBServer.__init__: the event it logs for a blank field of "smb"
SMBInitEvents(cfg) == IF cfg = "blank_user" THEN <<Error("JSON read")>> ELSE <<>>

\* main: smb = SMBServer(...)
SMBInit ==
    /\ pc = "smb_init"
    /\ samba' = "None"
    /\ events' = events \o SMBInitEvents(config)
    /\ calls' = Append(calls, "SMBServer")
    /\ pc' = "check_version"
    /\ UNCHANGED <<runs, ticks, today, sql, prev, tgz, remote, name_tgz, exc,
                   reports, changed, atStart, atCheck, present, sweep, save_days, faults, conn,
                   config, arg, res>>

\* check_file_version: "raise", "true" or "false"
FileVersion(prev_file, sql_file) ==
    IF ~prev_file.exists THEN "true"
    ELSE IF ~sql_file.exists THEN "raise"
    ELSE IF Fingerprint(prev_file.bytes) = Fingerprint(sql_file.bytes) THEN "false"
    ELSE "true"

\* check_file_version: the events it logs
FileVersionEvents(prev_file, sql_file) ==
    CASE FileVersion(prev_file, sql_file) = "raise" -> <<>>
      [] FileVersion(prev_file, sql_file) = "false" ->
             <<Warning("SQL File Comparison"), Warning("Compress File into TAR")>>
      [] OTHER -> <<Info("SQL File Comparison")>>

\* a comparison that leaves the dump in place when it is the same as the
\* retained copy
FileVersionSqlKept(prev_file, sql_file) == sql_file

\* check_file_version: the dump file it leaves
FileVersionSql(prev_file, sql_file) ==
    IF FileVersion(prev_file, sql_file) = "false" THEN NoFile ELSE sql_file

\* a comparison that removes the retained copy together with the dump when
\* the two are the same
FileVersionPrevRemoved(prev_file, sql_file) ==
    IF ~prev_file.exists \/ ~sql_file.exists THEN prev_file
    ELSE IF Fingerprint(prev_file.bytes) = Fingerprint(sql_file.bytes) THEN NoFile
    ELSE prev_file

\* check_file_version: the retained copy it leaves
FileVersionPrev(prev_file, sql_file) == prev_file

\* main: if script.check_file_version()
CheckFileVersion ==
    /\ pc = "check_version"
    /\ calls' = Append(calls, "check_file_version")
    /\ atCheck' = [prev |-> prev, sql |-> sql]
    /\ events' = events \o FileVersionEvents(prev, sql)
    /\ sql' = FileVersionSql(prev, sql)
    /\ prev' = FileVersionPrev(prev, sql)
    /\ LET r == FileVersion(prev, sql)
       IN  /\ changed' = IF r = "raise" THEN "unset" ELSE r
           /\ exc' = IF r = "raise" THEN "FileNotFoundError" ELSE exc
           /\ pc' = CASE r = "raise" -> "crashed"
                      [] r = "true" -> "compress"
                      [] OTHER -> "connect"
    /\ UNCHANGED <<runs, ticks, today, tgz, remote, name_tgz, samba, reports, atStart,
                   present, sweep, save_days, faults, conn, config, arg, res>>

\* what tarfile.open and tar.add can do: "open_failed" stands for an error of
\* tarfile.open, "add_failed" for one of tar.add, which a missing dump forces
TarOutcomes(sql_file) ==
    IF sql_file.exists THEN {"ok", "open_failed", "add_failed"}
    ELSE {"open_failed", "add_failed"}

\* a missing dump is no failure of the tar library
TarFault(outcome, sql_file) ==
    IF outcome = "add_failed" /\ ~sql_file.exists THEN 0 ELSE Fault(outcome)

\* compress_targz: the names of the archive files it leaves.
\* tarfile.open(name, "w:gz") creates or truncates the file before tar.add
\* reads the dump, so the file is there also when tar.add fails.
TarFiles(outcome, files, name) ==
    IF outcome = "open_failed" THEN files ELSE files \cup {name}

\* compress_targz: the event it logs
TarEvent(outcome) ==
    IF outcome = "ok" THEN Info("Compress File into TAR")
    ELSE Error("Compress File into TAR")

\* a rotation that takes place only when the archive was created
RotateOnSuccess(outcome, prev_file, sql_file) ==
    IF outcome # "ok" THEN prev_file
    ELSE IF sql_file.exists THEN sql_file ELSE NoFile

\* compress_targz, its last lines: the retained copy after the rotation
Rotate(outcome, prev_file, sql_file) ==
    IF sql_file.exists THEN sql_file ELSE NoFile

\* main: script.compress_targz()
CompressTargz ==
    /\ pc = "compress"
    /\ \E outcome \in TarOutcomes(sql) :
          /\ faults + TarFault(outcome, sql) <= MaxFaults
          /\ faults' = faults + TarFault(outcome, sql)
          /\ tgz' = TarFiles(outcome, tgz, name_tgz)
          /\ events' = Append(events, TarEvent(outcome))
          /\ prev' = Rotate(outcome, prev, sql)
    /\ sql' = NoFile
    /\ calls' = Append(calls, "compress_targz")
    /\ pc' = "connect"
    /\ UNCHANGED <<runs, ticks, today, remote, name_tgz, samba, exc, reports, changed,
                   atStart, atCheck, present, sweep, save_days, conn, config, arg, res>>

-----------------------------------------------------------------------------
(* The share.  SMBServer.samba is None until connect() builds the          *)
(* SMBConnection; from then on it is an object whose session is "open",     *)
(* "closed" (no socket: never connected, or closed) or "unauth" (connected,  *)
(* the server rejected the credentials and samba.connect returned False).   *)

\* what SMBConnection.connect can do: return True, return False, raise
\* smb.base.SMBTimeout, raise TimeoutError, raise ConnectionRefusedError
ConnectOutcomes ==
    {"ok", "auth_rejected", "SMBTimeout", "TimeoutError", "ConnectionRefusedError"}

\* connect: the session handle it leaves
ConnectSamba(outcome) ==
    CASE outcome = "ok" -> "open"
      [] outcome = "auth_rejected" -> "unauth"
      [] OTHER -> "closed"

\* connect: the events it logs (its only handler is for smb.base.SMBTimeout)
ConnectEvents(outcome) ==
    IF outcome = "SMBTimeout" THEN <<Error("SMB Connection")>> ELSE <<>>

\* connect: the exception it lets through, "" if none
ConnectRaises(outcome) ==
    IF outcome \in {"TimeoutError", "ConnectionRefusedError"} THEN outcome ELSE ""

\* main: the handler "except TimeoutError" of both try blocks
MainCatches(e) == e = "TimeoutError"

\* main: where an exception raised inside a try block leads
AfterRaise(e) == IF MainCatches(e) THEN "report" ELSE "crashed"

\* a main() that goes from smb.connect() to the sweep in both branches
AfterConnectSweepsFirst(chg) == "check_server"

\* main: the statement after smb.connect()
AfterConnect(chg) == IF chg = "true" THEN "send_file" ELSE "check_server"

\* main: smb.connect()
Connect ==
    /\ pc = "connect"
    /\ calls' = Append(calls, "connect")
    /\ \E outcome \in ConnectOutcomes :
          /\ faults + Fault(outcome) <= MaxFaults
          /\ faults' = faults + Fault(outcome)
          /\ samba' = ConnectSamba(outcome)
          /\ conn' = outcome
          /\ IF ConnectRaises(outcome) = ""
             THEN /\ events' = events \o ConnectEvents(outcome)
                  /\ pc' = AfterConnect(changed)
                  /\ exc' = exc
             ELSE /\ events' = IF MainCatches(ConnectRaises(outcome))
                               THEN Append(events, Error("SMB Server Error"))
                               ELSE events
                  /\ pc' = AfterRaise(ConnectRaises(outcome))
                  /\ exc' = IF MainCatches(ConnectRaises(outcome)) THEN exc
                            ELSE ConnectRaises(outcome)
    /\ UNCHANGED <<runs, ticks, today, sql, prev, tgz, remote, name_tgz, reports, changed,
                   atStart, atCheck, present, sweep, save_days, config, arg, res>>

\* what smb.storeFile can do on an open session
StoreOutcomes == {"ok", "OperationFailure", "TimeoutError"}

\* send_file: "skip" (the handle is None), "ok", or the exception it raises
SendFileResult(handle, files, name, outcome) ==
    CASE handle = "None" -> "skip"
      [] name \notin files -> "FileNotFoundError"
      [] handle = "closed" -> "NotConnectedError"
      [] handle = "unauth" -> "NotReadyError"
      [] OTHER -> outcome

\* main: smb.send_file()
SendFile ==
    /\ pc = "send_file"
    /\ calls' = Append(calls, "send_file")
    /\ \E outcome \in StoreOutcomes :
          LET r == SendFileResult(samba, tgz, name_tgz, outcome)
              failed == IF r = outcome THEN Fault(outcome) ELSE 0
          IN  /\ r = outcome \/ outcome = "ok"
              /\ faults + failed <= MaxFaults
              /\ faults' = faults + failed
              /\ remote' = IF r = "ok" THEN Store(remote, Entry(name_tgz, FALSE)) ELSE remote
              /\ events' = CASE r = "ok" -> Append(events, Info("Send File to SMB"))
                             [] r = "skip" -> events
                             [] MainCatches(r) -> Append(events, Error("SMB Server Error"))
                             [] OTHER -> events
              /\ pc' = IF r \in {"ok", "skip"} THEN "check_file" ELSE AfterRaise(r)
              /\ exc' = IF r \in {"ok", "skip"} \/ MainCatches(r) THEN exc ELSE r
    /\ UNCHANGED <<runs, ticks, today, sql, prev, tgz, name_tgz, samba, reports, changed,
                   atStart, atCheck, present, sweep, save_days, conn, config, arg, res>>

\* whether smb.listPath may answer or fail: it fails on a session that is not
\* open, and may fail on an open one
ListOutcomes(handle) == IF handle = "open" THEN {"ok", "OperationFailure"} ELSE {"ok"}

\* check_file: "true", "false", or "none" when the listing raised and the
\* handler returned nothing
CheckFileResult(handle, list, name, listing) ==
    CASE handle = "None" -> "false"
      [] handle # "open" \/ listing # "ok" -> "none"
      [] name \in Names(list) -> "true"
      [] OTHER -> "false"

\* check_file: the one event it logs
CheckFileEvent(r) == IF r = "true" THEN Info("File Uploaded") ELSE Error("File Uploaded")

\* main: smb.check_file()
CheckFile ==
    /\ pc = "check_file"
    /\ calls' = Append(calls, "check_file")
    /\ \E listing \in ListOutcomes(samba) :
          /\ faults + Fault(listing) <= MaxFaults
          /\ faults' = faults + Fault(listing)
          /\ present' = CheckFileResult(samba, remote, name_tgz, listing)
          /\ events' = Append(events, CheckFileEvent(present'))
    /\ pc' = "check_server"
    /\ UNCHANGED <<runs, ticks, today, sql, prev, tgz, remote, name_tgz, samba, exc,
                   reports, changed, atStart, atCheck, sweep, save_days, conn, config,
                   arg, res>>

\* check_server: max_date
MaxDate(now, days) == MinusDays(now, days)

\* a sweep that also takes the file dated max_date itself: "date <= max_date"
IsOldInclusive(date, max_date) == ~DateLess(max_date, date)

\* check_server: "if date < max_date", the file is older than the window
IsOld(date, max_date) == DateLess(date, max_date)

\* check_server: the loop over file_list from its i-th entry on.  `share` is
\* the share directory, `nb` is nb_delete, `failAt` the entry at which
\* smb.deleteFiles raises (0: nowhere).
RECURSIVE SweepLoop(_, _, _, _, _, _)
SweepLoop(file_list, i, share, nb, max_date, failAt) ==
    IF i > Len(file_list) THEN [share |-> share, nb |-> nb, status |-> "completed"]
    ELSE LET f == file_list[i]
         IN  IF f.isDirectory
             THEN SweepLoop(file_list, i + 1, share, nb, max_date, failAt)
             ELSE IF ~ParseName(f.filename).ok
             THEN [share |-> share, nb |-> nb, status |-> "ValueError"]
             ELSE IF ~IsOld(ParseName(f.filename).date, max_date)
             THEN SweepLoop(file_list, i + 1, share, nb, max_date, failAt)
             ELSE IF i = failAt
             THEN [share |-> share, nb |-> nb, status |-> "DeleteFailure"]
             ELSE SweepLoop(file_list, i + 1, Without(share, f.filename), nb + 1,
                            max_date, failAt)

\* check_server as a whole: what it leaves on the share and how it ended
Sweep(handle, list, now, days, listing, failAt) ==
    CASE handle = "None" -> [share |-> list, nb |-> 0, status |-> "not_connected"]
      [] handle = "closed" -> [share |-> list, nb |-> 0, status |-> "NotConnectedError"]
      [] handle = "unauth" -> [share |-> list, nb |-> 0, status |-> "NotReadyError"]
      [] listing # "ok" -> [share |-> list, nb |-> 0, status |-> "ListFailure"]
      [] OTHER -> SweepLoop(list, 1, list, 0, MaxDate(now, days), failAt)

\* a check_server that reports the number of deletions however the scan ended
SweepEventCount(r) == Ev("INFO", "Server File Check", r.nb)

\* a check_server that reports a completed scan without its count
SweepEventNoCount(r) ==
    IF r.status = "completed" THEN Info("Server File Check")
    ELSE Error("Server File Check")

\* check_server: the one event it logs
SweepEvent(r) ==
    IF r.status = "completed" THEN Ev("INFO", "Server File Check", r.nb)
    ELSE Error("Server File Check")

\* the failures of smb.listPath and smb.deleteFiles in a sweep
SweepFault(r) == IF r.status \in {"ListFailure", "DeleteFailure"} THEN 1 ELSE 0

\* main: smb.check_server()
CheckServer ==
    /\ pc = "check_server"
    /\ calls' = Append(calls, "check_server")
    /\ \E listing \in ListOutcomes(samba), failAt \in 0 .. Len(remote) :
          LET r == Sweep(samba, remote, today, save_days, listing, failAt)
          IN  /\ faults + SweepFault(r) <= MaxFaults
              /\ faults' = faults + SweepFault(r)
              /\ remote' = r.share
              /\ events' = Append(events, SweepEvent(r))
              /\ sweep' = [status |-> r.status, before |-> remote,
                           deleted |-> Names(remote) \ Names(r.share), nb |-> r.nb,
                           now |-> today]
    /\ pc' = "disconnect"
    /\ UNCHANGED <<runs, ticks, today, sql, prev, tgz, name_tgz, samba, exc, reports,
                   changed, atStart, atCheck, present, save_days, conn, config, arg, res>>

\* disconnect: self.samba.close(), which raises when the handle is None
DisconnectRaises(handle) == IF handle = "None" THEN "AttributeError" ELSE ""

\* main: smb.disconnect()
Disconnect ==
    /\ pc = "disconnect"
    /\ calls' = Append(calls, "disconnect")
    /\ IF DisconnectRaises(samba) = ""
       THEN /\ samba' = "closed"
            /\ pc' = "report"
            /\ exc' = exc
       ELSE /\ samba' = samba
            /\ pc' = AfterRaise(DisconnectRaises(samba))
            /\ exc' = DisconnectRaises(samba)
    /\ UNCHANGED <<runs, ticks, today, sql, prev, tgz, remote, name_tgz, events, reports,
                   changed, atStart, atCheck, present, sweep, save_days, faults, conn,
                   config, arg, res>>

\* main: script.log.send_notification_email()
SendNotificationEmail ==
    /\ pc = "report"
    /\ calls' = Append(calls, "send_notification_email")
    /\ reports' = reports + 1
    /\ pc' = "clean"
    /\ UNCHANGED <<runs, ticks, today, sql, prev, tgz, remote, name_tgz, samba, events,
                   exc, changed, atStart, atCheck, present, sweep, save_days, faults, conn,
                   config, arg, res>>

\* clean_directory: the archive files it leaves
CleanFiles(files, name) == files \ {name}

\* main: script.clean_directory()
CleanDirectory ==
    /\ pc = "clean"
    /\ calls' = Append(calls, "clean_directory")
    /\ tgz' = CleanFiles(tgz, name_tgz)
    /\ pc' = "done"
    /\ UNCHANGED <<runs, ticks, today, sql, prev, remote, name_tgz, samba, events, exc,
                   reports, changed, atStart, atCheck, present, sweep, save_days, faults, conn,
                   config, arg, res>>

-----------------------------------------------------------------------------
Next ==
    \/ Tick
    \/ ZipInit
    \/ GetConfig
    \/ DownloadUnzip
    \/ SMBInit
    \/ CheckFileVersion
    \/ CompressTargz
    \/ Connect
    \/ SendFile
    \/ CheckFile
    \/ CheckServer
    \/ Disconnect
    \/ SendNotificationEmail
    \/ CleanDirectory

Spec == Init /\ [][Next]_vars

-----------------------------------------------------------------------------
(* Properties. *)

\* the run is over: main() returned, or an exception escaped it
RunEnded == pc \in {"done", "crashed"}

\* download_unzip reported that it could not get the dump out of the bundle
FetchFailed == HasError(events, "Request ZIP") \/ HasError(events, "SQL File in Zip")

\* samba.connect did not open a session
ConnectFailed == conn \notin {"uncalled", "ok"}

\* C1: no exception escapes main(), and a run that is over has executed
\* Log.send_notification_email exactly once, after every other stage.
\* The code lets exceptions through (check_file_version opens a dump that a
\* failed fetch never wrote; connect and send_file raise what the handler
\* "except TimeoutError" does not catch), and the run then ends unreported.
C1_ReportAlwaysOnce ==
    /\ pc # "crashed"
    /\ pc = "done" => reports = 1
    /\ reports = 1 => ~(\E i \in 1 .. Len(calls) :
                           /\ calls[i] = "send_notification_email"
                           /\ \E j \in i + 1 .. Len(calls) : calls[j] # "clean_directory")

\* C2: a run that found a retained copy and extracted a dump of the same bytes
\* has check_file_version return false, creates no archive, attempts no upload,
\* and still executes check_server.  The code skips check_server whenever
\* smb.connect() raises.
C2_UnchangedStillSweeps ==
    (/\ RunEnded
     /\ Called("check_file_version")
     /\ atCheck.prev.exists /\ atCheck.sql.exists
     /\ atCheck.sql.bytes = atCheck.prev.bytes)
    => /\ changed = "false"
       /\ ~Called("compress_targz")
       /\ ~Called("send_file")
       /\ Called("check_server")

\* C3: whenever check_file_version returns, it returns true if and only if
\* there was no retained copy or the bytes of the dump differ from the bytes
\* of the retained copy; false exactly when a retained copy exists and the two
\* contents are identical.
C3_ChangedIffBytesDiffer ==
    changed # "unset" =>
        /\ changed = "true" <=>
               (~atCheck.prev.exists \/ atCheck.sql.bytes # atCheck.prev.bytes)
        /\ changed = "false" <=>
               (atCheck.prev.exists /\ atCheck.sql.bytes = atCheck.prev.bytes)

\* C3, its case: the two files have the same length and differ in one byte
C3_OneByteDiffers ==
    /\ changed = "true"
    /\ atCheck.prev.exists /\ atCheck.sql.exists
    /\ Len(atCheck.prev.bytes) = 1 /\ Len(atCheck.sql.bytes) = 1
    /\ atCheck.prev.bytes # atCheck.sql.bytes

\* every file of the listing has a name that reads as a date
AllParse(list) ==
    \A i \in 1 .. Len(list) : list[i].isDirectory \/ ParseName(list[i].filename).ok

\* the files of the listing dated strictly before the limit
FilesBefore(list, limit) ==
    {list[i].filename : i \in {j \in 1 .. Len(list) :
                                  /\ ~list[j].isDirectory
                                  /\ ParseName(list[j].filename).ok
                                  /\ DateLess(ParseName(list[j].filename).date, limit)}}

\* C4: a check_server that scans to the end a listing whose files all have
\* date names deletes exactly the files dated strictly before today minus
\* save_days, and nothing else: the file dated today minus save_days, newer
\* files and directories stay on the share.
C4_SweepDeletesExactlyExpired ==
    /\ (conn = "ok" /\ sweep.status # "uncalled" /\ AllParse(sweep.before)) =>
           sweep.status \in {"completed", "ListFailure", "DeleteFailure"}
    /\ sweep.status = "completed" =>
           /\ AllParse(sweep.before)
           /\ sweep.deleted = FilesBefore(sweep.before, MinusDays(sweep.now, save_days))
           /\ Names(remote) = Names(sweep.before) \ sweep.deleted
           /\ sweep.nb = Cardinality(sweep.deleted)

\* C4, its case: files dated 10, 5 and 2 days ago, a window of 7 days, and
\* only the file of 10 days ago is deleted
C4_ScenarioC ==
    /\ sweep.status = "completed"
    /\ sweep.before = <<Dot, Old(10), Old(5), Old(2)>>
    /\ sweep.now = StartDate
    /\ save_days = 7
    /\ sweep.deleted = {Old(10).filename}
    /\ remote = <<Dot, Old(5), Old(2)>>

\* C5: a run whose fetch failed logs an ERROR, does not execute compress_targz,
\* and still calls connect, check_server and disconnect before it reports,
\* with or without a retained copy.  The code runs compress_targz when there
\* is no retained copy and lets FileNotFoundError escape when there is one.
C5_FetchFailureSweepsOnly ==
    (RunEnded /\ FetchFailed) =>
        /\ ~Called("compress_targz")
        /\ Called("connect") /\ Called("check_server") /\ Called("disconnect")
        /\ reports = 1

\* C6: a run whose compress_targz failed logs an ERROR, skips send_file and
\* check_file, and still attempts the sweep.  The code calls send_file and
\* check_file whether or not the archive was created.
C6_ArchiveFailureSkipsUpload ==
    (RunEnded /\ HasError(events, "Compress File into TAR")) =>
        /\ ~Called("send_file")
        /\ ~Called("check_file")
        /\ Called("connect")

\* C7: a failed connect, whatever its error, is reported as an event and the
\* run still ends with the report, in the changed and in the unchanged branch.
\* The code lets ConnectionRefusedError escape, and reports nothing when the
\* server rejects the credentials.
C7_ConnectFailureReported ==
    (RunEnded /\ ConnectFailed) =>
        /\ reports = 1
        /\ HasError(events, "SMB Connection") \/ HasError(events, "SMB Server Error")

\* C8: after a failed connect every share operation the run goes on to call
\* logs an ERROR and returns; none raises.  In the code connect leaves the
\* handle set, so send_file goes on to samba.storeFile, which raises.
C8_OperationsAfterFailedConnect ==
    ConnectFailed =>
        /\ Called("send_file") => (pc # "crashed" /\ HasError(events, "Send File to SMB"))
        /\ Called("check_file") => HasError(events, "File Uploaded")
        /\ Called("check_server") => HasError(events, "Server File Check")

\* C9: after a run that detected a change on a dump that exists, the retained
\* copy holds the bytes of that dump, whether compress_targz succeeded or not.
C9_RetainedCopyIsThisRunsDump ==
    (RunEnded /\ changed = "true" /\ atCheck.sql.exists) =>
        (prev.exists /\ prev.bytes = atCheck.sql.bytes)

\* C9, its case: the archive could not be created, and the retained copy of
\* an earlier run has been replaced by this run's dump all the same
C9_RotatedAfterFailedArchive ==
    /\ RunEnded
    /\ changed = "true"
    /\ HasError(events, "Compress File into TAR")
    /\ atStart.exists /\ atCheck.sql.exists
    /\ atStart.bytes # atCheck.sql.bytes
    /\ prev = atCheck.sql

\* C10: from the moment check_file_version has answered "unchanged" to the
\* end of the run, the retained copy is what the run found: it exists and
\* has the same bytes.
C10_UnchangedKeepsRetainedCopy ==
    changed = "false" => (prev = atStart /\ prev.exists)

\* C10, its case: an unchanged run that went through the sweep and ended
C10_UnchangedRunEnded ==
    /\ pc = "done"
    /\ changed = "false"
    /\ Called("check_server")
    /\ prev = atStart

\* the run logged the INFO event of a stage
HasInfo(evs, stage) == \E i \in 1 .. Len(evs) : evs[i] = Info(stage)

\* a run that found no retained copy and in which the fetch, the archive, the
\* connect and the upload succeeded, once check_file has been called
FirstRunUploaded ==
    /\ ~atStart.exists
    /\ HasInfo(events, "SQL File Downloaded")
    /\ HasInfo(events, "Compress File into TAR")
    /\ conn = "ok"
    /\ HasInfo(events, "Send File to SMB")
    /\ Called("check_file")

StageOrder ==
    <<"get_config", "download_unzip", "SMBServer", "check_file_version", "compress_targz",
      "connect", "send_file", "check_file", "check_server", "disconnect",
      "send_notification_email", "clean_directory">>

\* the place of a call in that order
Rank(m) == CHOOSE i \in 1 .. Len(StageOrder) : StageOrder[i] = m

\* C12: the stages of a run execute in the fixed order fetch, change
\* detection, archive, upload, presence check, eviction sweep, report, and none
\* is executed twice; the archive step, the upload and the presence check
\* happen only in a run that detected a change, the upload only after the
\* archive step, the presence check only after the upload, and in the changed
\* branch the eviction sweep only after the presence check.
C12_StagesInOrder ==
    /\ \A i, j \in 1 .. Len(calls) : i < j => Rank(calls[i]) < Rank(calls[j])
    /\ Called("check_file_version") => Called("download_unzip")
    /\ Called("compress_targz") => changed = "true"
    /\ Called("send_file") => Called("compress_targz")
    /\ Called("check_file") => Called("send_file")
    /\ (changed = "true" /\ Called("check_server")) => Called("check_file")
    /\ changed = "false" =>
           (~Called("compress_targz") /\ ~Called("send_file") /\ ~Called("check_file"))
    /\ Called("send_notification_email") => Called("connect")

\* C12, its case: a changed run that went through every stage
C12_AllStagesRan ==
    /\ pc = "done"
    /\ changed = "true"
    /\ calls = StageOrder

\* C13: no run ends with a share session still open: a session that connect()
\* opened is closed by disconnect() on every path to the end of the run.  In
\* the code disconnect() is the last statement of the try block, so an upload
\* that raises leaves the run without it.
C13_SessionReleased == RunEnded => samba # "open"

-----------------------------------------------------------------------------
(* The SMBServer object on its own.  Its methods are public, and a caller   *)
(* other than main() may call them in any order: ApiSpec is the object      *)
(* after SMBServer.__init__, under any sequence of at most MaxCalls calls.   *)
(* `exc` is the exception the last call raised, "" when it returned.        *)

\* the archive file the object was given: in the working directory, or not
ApiInit ==
    /\ config = "ok"
    /\ arg = <<>>
    /\ res = <<>>
    /\ pc = "api"
    /\ runs = 0
    /\ ticks = 0
    /\ faults = 0
    /\ today = StartDate
    /\ sql = NoFile
    /\ prev = NoFile
    /\ name_tgz = ArchiveName(StartDate)
    /\ tgz \in {{}, {ArchiveName(StartDate)}}
    /\ remote \in InitialListings
    /\ save_days \in SaveDaysChoices
    /\ samba = "None"
    /\ events = <<>>
    /\ calls = <<>>
    /\ exc = ""
    /\ reports = 0
    /\ changed = "unset"
    /\ atStart = NoFile
    /\ atCheck = NoCheck
    /\ present = "uncalled"
    /\ sweep = NoSweep
    /\ conn = "uncalled"

\* the caller may make one more call
ApiReady == pc = "api" /\ Len(calls) < MaxCalls

\* the last call made was to method m
Last(m) == calls # <<>> /\ calls[Len(calls)] = m

\* smb.connect()
ApiConnect ==
    /\ ApiReady
    /\ calls' = Append(calls, "connect")
    /\ \E outcome \in ConnectOutcomes :
          /\ faults + Fault(outcome) <= MaxFaults
          /\ faults' = faults + Fault(outcome)
          /\ samba' = ConnectSamba(outcome)
          /\ conn' = outcome
          /\ events' = events \o ConnectEvents(outcome)
          /\ exc' = ConnectRaises(outcome)
    /\ UNCHANGED <<pc, runs, ticks, today, sql, prev, tgz, remote, name_tgz, reports,
                   changed, atStart, atCheck, present, sweep, save_days, config, arg, res>>

\* smb.disconnect()
ApiDisconnect ==
    /\ ApiReady
    /\ calls' = Append(calls, "disconnect")
    /\ exc' = DisconnectRaises(samba)
    /\ samba' = IF DisconnectRaises(samba) = "" THEN "closed" ELSE samba
    /\ UNCHANGED <<pc, runs, ticks, today, sql, prev, tgz, remote, name_tgz, events,
                   reports, changed, atStart, atCheck, present, sweep, save_days, faults,
                   conn, config, arg, res>>

\* smb.send_file()
ApiSendFile ==
    /\ ApiReady
    /\ calls' = Append(calls, "send_file")
    /\ \E outcome \in StoreOutcomes :
          LET r == SendFileResult(samba, tgz, name_tgz, outcome)
              failed == IF r = outcome THEN Fault(outcome) ELSE 0
          IN  /\ r = outcome \/ outcome = "ok"
              /\ faults + failed <= MaxFaults
              /\ faults' = faults + failed
              /\ remote' = IF r = "ok" THEN Store(remote, Entry(name_tgz, FALSE)) ELSE remote
              /\ events' = IF r = "ok" THEN Append(events, Info("Send File to SMB"))
                           ELSE events
              /\ exc' = IF r \in {"ok", "skip"} THEN "" ELSE r
    /\ UNCHANGED <<pc, runs, ticks, today, sql, prev, tgz, name_tgz, samba, reports,
                   changed, atStart, atCheck, present, sweep, save_days, conn, config,
                   arg, res>>

\* smb.check_file()
ApiCheckFile ==
    /\ ApiReady
    /\ calls' = Append(calls, "check_file")
    /\ \E listing \in ListOutcomes(samba) :
          /\ faults + Fault(listing) <= MaxFaults
          /\ faults' = faults + Fault(listing)
          /\ present' = CheckFileResult(samba, remote, name_tgz, listing)
          /\ events' = Append(events, CheckFileEvent(present'))
    /\ exc' = ""
    /\ UNCHANGED <<pc, runs, ticks, today, sql, prev, tgz, remote, name_tgz, samba,
                   reports, changed, atStart, atCheck, sweep, save_days, conn, config,
                   arg, res>>

\* smb.check_server()
ApiCheckServer ==
    /\ ApiReady
    /\ calls' = Append(calls, "check_server")
    /\ \E listing \in ListOutcomes(samba), failAt \in 0 .. Len(remote) :
          LET r == Sweep(samba, remote, today, save_days, listing, failAt)
          IN  /\ faults + SweepFault(r) <= MaxFaults
              /\ faults' = faults + SweepFault(r)
              /\ remote' = r.share
              /\ events' = Append(events, SweepEvent(r))
              /\ sweep' = [status |-> r.status, before |-> remote,
                           deleted |-> Names(remote) \ Names(r.share), nb |-> r.nb,
                           now |-> today]
    /\ exc' = ""
    /\ UNCHANGED <<pc, runs, ticks, today, sql, prev, tgz, name_tgz, samba, reports,
                   changed, atStart, atCheck, present, save_days, conn, config, arg, res>>

ApiNext ==
    \/ ApiConnect
    \/ ApiDisconnect
    \/ ApiSendFile
    \/ ApiCheckFile
    \/ ApiCheckServer

ApiSpec == ApiInit /\ [][ApiNext]_vars

\* C14: disconnect() called on an object whose connect() was never called
\* (the handle is still None) raises nothing.  The code calls
\* self.samba.close() whatever the handle is.
C14_DisconnectAlwaysSafe == (Last("disconnect") /\ samba = "None") => exc = ""

\* C15: send_file called while the handle is None transfers nothing, raises
\* nothing and logs an ERROR event.  The code returns without an event.
C15_SendFileNotConnected ==
    (Last("send_file") /\ samba = "None") =>
        /\ exc = ""
        /\ name_tgz \notin Names(remote)
        /\ events # <<>> /\ events[Len(events)] = Error("Send File to SMB")

\* C16: check_file returns true if and only if the session is open, the
\* listing is answered and an entry of it has the archive's name; in every
\* other case it logs an ERROR event and returns false.  The code returns
\* nothing (None) when the listing raises.
C16_CheckFileTrueIffListed ==
    Last("check_file") =>
        /\ present = "true" => (samba = "open" /\ name_tgz \in Names(remote))
        /\ (present = "false" /\ samba = "open") => name_tgz \notin Names(remote)
        /\ present # "true" =>
               (present = "false" /\ events[Len(events)] = Error("File Uploaded"))

-----------------------------------------------------------------------------
(* Properties of the sweep. *)

\* C17: a file whose name is no date does not stop the sweep: whenever the
\* scan has started, every file of the listing dated before the limit is
\* deleted, wherever the unreadable name stands.  In the code strptime raises
\* ValueError inside the loop and the handler of check_server ends the scan.
C17_UnparsableDoesNotStopSweep ==
    sweep.status \in {"completed", "ValueError"} =>
        sweep.deleted = FilesBefore(sweep.before, MinusDays(sweep.now, save_days))

\* the ways a check_server on a session handle that is set can fail
FailedSweeps ==
    {"ListFailure", "ValueError", "DeleteFailure", "NotConnectedError", "NotReadyError"}

\* the scan stopped at entry k of the listing: the entries before it were
\* handled, entry k raised, and the entries after it were not looked at
StoppedAt(k) ==
    LET f == sweep.before[k]
        limit == MinusDays(sweep.now, save_days)
    IN  /\ ~f.isDirectory
        /\ AllParse(SubSeq(sweep.before, 1, k - 1))
        /\ sweep.deleted = FilesBefore(SubSeq(sweep.before, 1, k - 1), limit)
        /\ f.filename \notin sweep.deleted
        /\ IF sweep.status = "ValueError" THEN ~ParseName(f.filename).ok
           ELSE ParseName(f.filename).ok /\ DateLess(ParseName(f.filename).date, limit)

\* C18: an exception raised during check_server (by the listing, by the
\* reading of a name, by a deletion) is caught inside check_server and
\* reported as one ERROR event: the scan stops where the exception was
\* raised, the entries deleted before it stay deleted, the entries after it
\* are left alone, and nothing propagates to main().
C18_SweepExceptionCaught ==
    sweep.status \in FailedSweeps =>
        /\ exc = ""
        /\ pc # "crashed"
        /\ HasError(events, "Server File Check")
        /\ Cardinality({i \in 1 .. Len(events) : events[i].stage = "Server File Check"}) = 1
        /\ sweep.nb = Cardinality(sweep.deleted)
        /\ pc = "disconnect" => Names(remote) = Names(sweep.before) \ sweep.deleted
        /\ IF sweep.status \in {"ValueError", "DeleteFailure"}
           THEN \E k \in 1 .. Len(sweep.before) : StoppedAt(k)
           ELSE sweep.deleted = {}

\* C18, its case: a deletion failed after an earlier file had been deleted,
\* and the run went on to its end
C18_DeleteFailedMidway ==
    /\ pc = "done"
    /\ sweep.status = "DeleteFailure"
    /\ sweep.deleted # {}
    /\ sweep.deleted # FilesBefore(sweep.before, MinusDays(sweep.now, save_days))

-----------------------------------------------------------------------------
(* Properties of the configuration. *)

ConfigSpec == ConfigInit /\ [][Next]_vars

\* the run has made a network call: an HTTP GET, or a connect to the share
NetworkCalled == (Called("download_unzip") /\ HttpGet(config)) \/ Called("connect")

\* C19: a run with a blank required field in config_file.json reports a
\* configuration error as an event and makes no network call, neither the
\* HTTP GET nor the connect to the share.  The code logs the error and goes
\* on with every stage.
C19_ConfigErrorNoNetwork ==
    (config # "ok" /\ Called("SMBServer")) =>
        /\ HasError(events, "JSON file read") \/ HasError(events, "JSON read")
        /\ ~NetworkCalled

\* C20: at the end of every run, however it ended, the working directory
\* holds no archive file of the run's name.  clean_directory is the last
\* statement of main(), and a run that an exception ends never gets there.
C20_LocalArchiveRemoved == RunEnded => name_tgz \notin tgz

-----------------------------------------------------------------------------
(* Functions of the program applied on their own.  The job stands still     *)
(* (FnFrame); `arg` holds the arguments and `res` what has been computed.    *)

\* the job before its first run, at position p
FnFrame(p) ==
    /\ pc = p
    /\ config = "ok"
    /\ runs = 0
    /\ ticks = 0
    /\ faults = 0
    /\ today = StartDate
    /\ sql = NoFile
    /\ prev = NoFile
    /\ tgz = {}
    /\ remote = <<>>
    /\ save_days = 7
    /\ name_tgz = Name(<<>>, FALSE)
    /\ samba = "unset"
    /\ events = <<>>
    /\ calls = <<>>
    /\ exc = ""
    /\ reports = 0
    /\ changed = "unset"
    /\ atStart = NoFile
    /\ atCheck = NoCheck
    /\ present = "uncalled"
    /\ sweep = NoSweep
    /\ conn = "uncalled"

\* the job does not move
FnUnchanged ==
    UNCHANGED <<pc, runs, ticks, today, sql, prev, tgz, remote, name_tgz, samba, events,
                calls, exc, reports, changed, atStart, atCheck, present, sweep, save_days,
                faults, conn, config>>

(* The archive name.  NameSpec: two runs, on dates d1 and d2 of a span of    *)
(* days that crosses the end of February, each naming its archive as         *)
(* Zip.__init__ does and storing it on a share as send_file does.            *)

\* the dates a run may take place on
NameDates == {MinusDays(StartDate, k) : k \in 0 .. MaxDays}

NameInit ==
    /\ FnFrame("naming")
    /\ arg \in {<<d1, d2>> : d1 \in NameDates, d2 \in NameDates}
    /\ res = [names |-> <<>>, share |-> <<>>]

\* the next run names its archive and uploads it
NameRun ==
    /\ pc = "naming"
    /\ Len(res.names) < Len(arg)
    /\ LET name == ArchiveName(arg[Len(res.names) + 1])
       IN  res' = [names |-> Append(res.names, name),
                   share |-> Store(res.share, Entry(name, FALSE))]
    /\ arg' = arg
    /\ FnUnchanged

NameNext == NameRun

NameSpec == NameInit /\ [][NameNext]_vars

\* C21: the archive name is a function of the date alone: two runs on the
\* same day produce the same name, two runs on different days different
\* names, and so the share holds one archive for each day on which a run
\* uploaded, the later upload of a day replacing the earlier.
C21_OneArchivePerDay ==
    pc = "naming" =>
        /\ \A i, j \in 1 .. Len(res.names) :
               (arg[i] = arg[j]) <=> (res.names[i] = res.names[j])
        /\ \A i \in 1 .. Len(res.names) : res.names[i] \in Names(res.share)
        /\ Len(res.share) = Cardinality({arg[i] : i \in 1 .. Len(res.names)})

\* C21, its case: two runs on the same day, and one archive on the share
C21_SameDayOverwrites ==
    /\ pc = "naming"
    /\ Len(res.names) = 2
    /\ arg[1] = arg[2]
    /\ res.share = <<Entry(ArchiveName(arg[1]), FALSE)>>

\* the order of strings of digits, character by character ("<" on str)
RECURSIVE LexLess(_, _)
LexLess(a, b) ==
    IF b = <<>> THEN FALSE
    ELSE IF a = <<>> THEN TRUE
    ELSE IF Head(a) # Head(b) THEN Head(a) < Head(b)
    ELSE LexLess(Tail(a), Tail(b))

\* the order of file names: by their stems, and a bare stem before stem.tgz
NameLess(m, n) ==
    \/ LexLess(m.stem, n.stem)
    \/ m.stem = n.stem /\ ~m.ext /\ n.ext

\* C22: archive names sort like their dates: the name of an earlier date is
\* lexically smaller than the name of a later date.  The format '%Y%d%m'
\* writes the day before the month, so within a year the names sort by day
\* of the month first.
C22_NamesSortLikeDates ==
    pc = "naming" =>
        \A i, j \in 1 .. Len(res.names) :
            DateLess(arg[i], arg[j]) => NameLess(res.names[i], res.names[j])

-----------------------------------------------------------------------------
(* Properties of the extraction. *)

\* C23: when the extraction fails on corrupted compressed data, an ERROR
\* event is logged, no extracted file is left in the working directory, and
\* the run neither compares nor archives such a file.  zfile.extract creates
\* the target before it meets the corruption, and the code leaves it there.
C23_CorruptExtractionLeavesNothing ==
    HasError(events, "SQL File Downloaded") =>
        /\ pc = "smb_init" => ~sql.exists
        /\ Called("check_file_version") => ~atCheck.sql.exists
        /\ Called("compress_targz") => ~HasInfo(events, "Compress File into TAR")

-----------------------------------------------------------------------------
(* The Log object on its own.  LogSpec: a Log is built from the             *)
(* "notification" and "email" entries of config_file.json, events are       *)
(* logged on it, and send_notification_email sends the two channels.        *)
(* `arg` is the configuration, `events` every event emitted so far, and      *)
(* `res` the Log: whether self.mattermost and self.email are set, the        *)
(* entries each of them has accumulated, and what has been sent.  The email  *)
(* configuration is complete, with "include_log" set to "no", and the SMTP   *)
(* server accepts the mail.                                                  *)

\* "notification": absent, a supported value, an unsupported value
NotificationChoices == {"None", "always", "unsupported"}

\* "email": absent; complete; complete with an empty "title"; complete with
\* an unsupported "send-mail"
EmailChoices == {"None", "yes", "no_title", "unsupported"}

\* Log.info / Log.warning / Log.error: the event goes to the channels that
\* are set at that moment
Emit(log, e) ==
    [log EXCEPT !.chat = IF log.mattermost THEN Append(log.chat, e) ELSE log.chat,
                !.mail = IF log.email THEN Append(log.mail, e) ELSE log.mail]

\* Log.__init__, its statements in order: the Mattermost object, the warning
\* for the notification value, the Email object (whose constructor logs
\* before self.email is assigned), the warning for the send-mail value
LogBuild(cfg) ==
    LET l0 == [mattermost |-> FALSE, email |-> FALSE, chat |-> <<>>, mail |-> <<>>,
               sent |-> <<>>]
        l1 == [l0 EXCEPT !.mattermost = cfg.notification # "None"]
        l2 == IF cfg.notification = "unsupported" THEN Emit(l1, Warning("Config File"))
              ELSE l1
        l3 == IF cfg.email = "no_title" THEN Emit(l2, Warning("Email config")) ELSE l2
        l4 == [l3 EXCEPT !.email = cfg.email # "None"]
    IN  IF cfg.email = "unsupported" THEN Emit(l4, Warning("Config File")) ELSE l4

\* Log.__init__: the events it emits
LogBuildEvents(cfg) ==
    (IF cfg.notification = "unsupported" THEN <<Warning("Config File")>> ELSE <<>>)
    \o (IF cfg.email = "no_title" THEN <<Warning("Email config")>> ELSE <<>>)
    \o (IF cfg.email = "unsupported" THEN <<Warning("Config File")>> ELSE <<>>)

LogInit ==
    /\ FnFrame("log_new")
    /\ arg \in [notification : NotificationChoices, email : EmailChoices]
    /\ res = <<>>

\* self.log = Log(data["notification"], data["email"], data["mattermost_webhook"])
LogNew ==
    /\ pc = "log_new"
    /\ pc' = "logging"
    /\ res' = LogBuild(arg)
    /\ events' = LogBuildEvents(arg)
    /\ UNCHANGED <<runs, ticks, today, sql, prev, tgz, remote, name_tgz, samba, calls, exc,
                   reports, changed, atStart, atCheck, present, sweep, save_days, faults,
                   conn, config, arg>>

\* log.info(...), log.warning(...) or log.error(...) by a stage of the run
LogEmit ==
    /\ pc = "logging"
    /\ Len(events) < MaxEvents + Len(LogBuildEvents(arg))
    /\ \E sev \in {"INFO", "WARNING", "ERROR"} :
          /\ events' = Append(events, Ev(sev, "Stage", 0))
          /\ res' = Emit(res, Ev(sev, "Stage", 0))
    /\ UNCHANGED <<pc, runs, ticks, today, sql, prev, tgz, remote, name_tgz, samba, calls,
                   exc, reports, changed, atStart, atCheck, present, sweep, save_days,
                   faults, conn, config, arg>>

\* a channel is sent: what it carries, and what had been emitted by then
Sending(log, channel, body, emitted) ==
    [log EXCEPT !.sent = Append(log.sent, [channel |-> channel, body |-> body,
                                           emitted |-> emitted])]

\* send_notification_email: the chat notification, whose delivery may fail
\* with a warning, then the mail, followed by INFO "Email sent"
LogSend ==
    /\ pc = "logging"
    /\ pc' = "log_sent"
    /\ \E delivered \in BOOLEAN :
          LET a1 == IF res.mattermost THEN Sending(res, "chat", res.chat, events) ELSE res
              e1 == IF res.mattermost /\ ~delivered
                    THEN <<Warning("Mattermost notification")>> ELSE <<>>
              a2 == IF e1 = <<>> THEN a1 ELSE Emit(a1, e1[1])
              a3 == IF res.email THEN Sending(a2, "mail", a2.mail, events \o e1) ELSE a2
              e2 == IF res.email THEN <<Info("Email sent")>> ELSE <<>>
              a4 == IF e2 = <<>> THEN a3 ELSE Emit(a3, e2[1])
          IN  /\ res.mattermost \/ delivered
              /\ res' = a4
              /\ events' = events \o e1 \o e2
    /\ UNCHANGED <<runs, ticks, today, sql, prev, tgz, remote, name_tgz, samba, calls, exc,
                   reports, changed, atStart, atCheck, present, sweep, save_days, faults,
                   conn, config, arg>>

LogNext ==
    \/ LogNew
    \/ LogEmit
    \/ LogSend

LogSpec == LogInit /\ [][LogNext]_vars

\* C24: at the moment a channel is sent, the entries it carries are the
\* events emitted so far in the run, each once and in the order of emission,
\* those emitted while the channels were being set up included.  In the code
\* an event reaches only the channels that exist when it is logged, and
\* self.email is assigned after the Email constructor has logged.
C24_ReportCarriesEveryEvent ==
    pc = "log_sent" =>
        \A i \in 1 .. Len(res.sent) : res.sent[i].body = res.sent[i].emitted

-----------------------------------------------------------------------------
(* The fingerprint on its own.  HashSpec: a file of at most MaxLen bytes is  *)
(* hashed by the read loop of check_file_version with a chunk size of at     *)
(* most MaxChunk, with the chunk size of the code, and in one read.          *)

\* the files of at most n bytes
RECURSIVE FilesUpTo(_)
FilesUpTo(n) ==
    IF n = 0 THEN {<<>>}
    ELSE LET shorter == FilesUpTo(n - 1)
         IN  shorter \cup {Append(f, b) : f \in {g \in shorter : Len(g) = n - 1}, b \in Bytes}

HashInit ==
    /\ FnFrame("hashing")
    /\ arg \in [bytes : FilesUpTo(MaxLen), size : 1 .. MaxChunk]
    /\ res = <<>>

\* the file is hashed: by the loop with chunks of arg.size bytes, by the loop
\* as the code has it, and by one update with the whole content
HashFile ==
    /\ pc = "hashing"
    /\ res = <<>>
    /\ res' = [chunked |-> HashLoop(arg.bytes, 0, arg.size, Sha1New),
               code |-> Fingerprint(arg.bytes),
               whole |-> Sha1Update(Sha1New, arg.bytes)]
    /\ arg' = arg
    /\ FnUnchanged

HashNext == HashFile

HashSpec == HashInit /\ [][HashNext]_vars

\* C25: the fingerprint does not depend on the chunk size: the read loop, with
\* any chunk size, feeds the digest the whole content of the file, in order,
\* and its result is that of hashing the file in one read, for a file that is
\* empty, shorter than a chunk, one chunk long or several chunks long.
C25_ChunkSizeInvariant ==
    (pc = "hashing" /\ res # <<>>) =>
        /\ res.chunked = res.whole
        /\ res.code = res.whole

\* C25, its case: a file of exactly two chunks
C25_TwoFullChunks ==
    /\ pc = "hashing"
    /\ res # <<>>
    /\ arg.size > 1
    /\ Len(arg.bytes) = 2 * arg.size
    /\ res.chunked = res.whole

-----------------------------------------------------------------------------
\* C26: a call of check_server on an open session whose scan ends without an
\* exception logs exactly one event, an INFO whose count is the number of
\* files the call removed from the share; a call on an object that is not
\* connected logs exactly one event, an ERROR, and removes nothing.
C26_SweepReportsItsDeletions ==
    [][calls' = Append(calls, "check_server") =>
          /\ sweep'.status = "completed" =>
                events' = Append(events, Ev("INFO", "Server File Check",
                                            Cardinality(Names(remote) \ Names(remote'))))
          /\ samba # "open" =>
                /\ events' = Append(events, Error("Server File Check"))
                /\ remote' = remote]_vars

\* C26, its case: a completed sweep that deleted a file and said so
C26_SweepDeletedAndCounted ==
    /\ Last("check_server")
    /\ samba = "open"
    /\ sweep.status = "completed"
    /\ sweep.deleted # {}
    /\ events[Len(events)] = Ev("INFO", "Server File Check", Cardinality(sweep.deleted))

-----------------------------------------------------------------------------
-----------------------------------------------------------------------------
\* C28: once a run has reached the report step the extracted dump is no
\* longer in the working directory under its own name: the unchanged branch
\* has deleted it and the changed branch has renamed it into the retained
\* copy.  Hence the fetch of a run finds no dump left by an earlier run, and
\* a run whose fetch fails has none to compare or to archive.
C28_DumpConsumedBeforeReport ==
    /\ pc \in {"report", "clean", "done"} => ~sql.exists
    /\ pc = "download" => ~sql.exists
    /\ (pc \in {"report", "clean", "done"} /\ FetchFailed
          /\ ~HasInfo(events, "SQL File in Zip")) =>
             (~atCheck.sql.exists /\ ~HasInfo(events, "Compress File into TAR"))

\* C28, its case: a second run that found its dump unchanged, deleted it and
\* reached the report step
C28_UnchangedDumpDeleted ==
    /\ runs = 2
    /\ pc = "report"
    /\ changed = "false"
    /\ atCheck.sql.exists
    /\ ~sql.exists

=============================================================================
